---- MODULE Spec2Model ----
(***************************************************************************)
(* Model of src/main.py: the BasicBot order client of a futures exchange   *)
(* and the interactive menu of main().                                     *)
(*                                                                         *)
(* Text values that the program converts (upper(), lower(), strip(),       *)
(* float()) are sequences of one-character strings, so that a conversion   *)
(* is computed and never assumed.  One call of a BasicBot method is a      *)
(* "run": the sequence of the events it produces (endpoint invocations and *)
(* log records, in program order) together with its outcome (a returned    *)
(* value or a raised exception).                                           *)
(***************************************************************************)
EXTENDS Integers, Sequences, FiniteSets, TLC

VARIABLES pc, connected, last

vars == <<pc, connected, last>>

(***************************************************************************)
(* Bounds of the model.                                                    *)
(***************************************************************************)
MaxQty == 2
MaxAssets == 2

(***************************************************************************)
(* Text.                                                                   *)
(***************************************************************************)
LowerLetters ==
    <<"a","b","c","d","e","f","g","h","i","j","k","l","m",
      "n","o","p","q","r","s","t","u","v","w","x","y","z">>

UpperLetters ==
    <<"A","B","C","D","E","F","G","H","I","J","K","L","M",
      "N","O","P","Q","R","S","T","U","V","W","X","Y","Z">>

UpperChar(c) ==
    IF \E i \in DOMAIN LowerLetters : LowerLetters[i] = c
    THEN UpperLetters[CHOOSE i \in DOMAIN LowerLetters : LowerLetters[i] = c]
    ELSE c

LowerChar(c) ==
    IF \E i \in DOMAIN UpperLetters : UpperLetters[i] = c
    THEN LowerLetters[CHOOSE i \in DOMAIN UpperLetters : UpperLetters[i] = c]
    ELSE c

\* str.upper()
Upper(s) == [i \in DOMAIN s |-> UpperChar(s[i])]

\* str.lower()
Lower(s) == [i \in DOMAIN s |-> LowerChar(s[i])]

RECURSIVE LStrip(_)
LStrip(s) == IF s # <<>> /\ Head(s) = " " THEN LStrip(Tail(s)) ELSE s

RECURSIVE RStrip(_)
RStrip(s) ==
    IF s # <<>> /\ s[Len(s)] = " " THEN RStrip(SubSeq(s, 1, Len(s) - 1)) ELSE s

\* str.strip()
Strip(s) == RStrip(LStrip(s))

Digits == <<"0","1","2","3","4","5","6","7","8","9">>

IsDigit(c) == \E i \in DOMAIN Digits : Digits[i] = c

DigitVal(c) == (CHOOSE i \in DOMAIN Digits : Digits[i] = c) - 1

RECURSIVE DigitsVal(_)
DigitsVal(s) ==
    IF s = <<>> THEN 0
    ELSE 10 * DigitsVal(SubSeq(s, 1, Len(s) - 1)) + DigitVal(s[Len(s)])

RECURSIVE Pow10(_)
Pow10(n) == IF n = 0 THEN 1 ELSE 10 * Pow10(n - 1)

\* Number of fraction digits the decimal texts of the exchange carry at most.
FracDigits == 2

\* float() of a decimal text  [-]digits[.digits] , as a number of
\* 10^-FracDigits units.
Float(s) ==
    LET neg  == s # <<>> /\ Head(s) = "-"
        body == IF neg THEN Tail(s) ELSE s
        dot  == IF \E i \in DOMAIN body : body[i] = "."
                THEN CHOOSE i \in DOMAIN body : body[i] = "."
                ELSE Len(body) + 1
        ip   == SubSeq(body, 1, dot - 1)
        fp   == SubSeq(body, dot + 1, Len(body))
        mag  == DigitsVal(ip) * Pow10(FracDigits)
                  + DigitsVal(fp) * Pow10(FracDigits - Len(fp))
    IN  IF neg THEN 0 - mag ELSE mag

BUY  == <<"B","U","Y">>
SELL == <<"S","E","L","L">>
GTC  == <<"G","T","C">>
IOC  == <<"I","O","C">>
FOK  == <<"F","O","K">>
YES  == <<"y","e","s">>

(***************************************************************************)
(* The exchange (binance.client.Client): every endpoint invocation either  *)
(* answers or raises BinanceAPIException / BinanceRequestException.        *)
(***************************************************************************)
ApiErrors ==
    { [type |-> "BinanceAPIException", status_code |-> c, message |-> m] :
        c \in {400}, m \in {"rejected"} }

TransportErrors ==
    { [type |-> "BinanceRequestException", message |-> "unreachable"] }

ExchangeErrors == ApiErrors \cup TransportErrors

Failure(e) == [ok |-> FALSE, error |-> e]

Answer(v) == [ok |-> TRUE, value |-> v]

Failures == { Failure(e) : e \in ExchangeErrors }

BTCUSDT == <<"B","T","C","U">>
ETHUSDT == <<"E","T","H","U">>

\* futures_exchange_info()['symbols'], as the list of their 'symbol' fields
SymbolLists == { <<BTCUSDT, ETHUSDT>>, <<ETHUSDT>> }

InfoOutcomes == { Answer(l) : l \in SymbolLists } \cup Failures

OrderIds == {7}

\* the response of futures_create_order / futures_cancel_order / futures_get_order
OrderResponses == { [orderId |-> i, status |-> s] : i \in OrderIds, s \in {"NEW"} }

OrderOutcomes == { Answer(r) : r \in OrderResponses } \cup Failures

(***************************************************************************)
(* Runs of BasicBot methods.                                               *)
(***************************************************************************)
Call(endpoint, params) == [ev |-> "call", endpoint |-> endpoint, params |-> params]

LogInfo(tag, data) == [ev |-> "log", level |-> "info", tag |-> tag, data |-> data]

LogError(tag, data) == [ev |-> "log", level |-> "error", tag |-> tag, data |-> data]

Return(v) == [kind |-> "return", value |-> v]

Raise(e) == [kind |-> "raise", exc |-> e]

ValueError(msg) == [type |-> "ValueError", message |-> msg]

Run(events, outcome) == [events |-> events, outcome |-> outcome]

\* the value None
None == <<"NoneType">>

\* an argument the caller does not give
Omitted == <<"omitted">>

\* a parameter with a default value
Default(arg, default) == IF arg = Omitted THEN default ELSE arg

\* truth value of an Optional[str]
Truthy(x) == x # None /\ x # <<>>

Elems(l) == { l[i] : i \in DOMAIN l }

\* variant: the error of the lookup is not caught
_validate_symbol_raising(symbol, info) ==
    IF info.ok
    THEN Run(<<Call("futures_exchange_info", <<>>)>>,
             Return(Upper(symbol) \in Elems(info.value)))
    ELSE Run(<<Call("futures_exchange_info", <<>>)>>, Raise(info.error))

_validate_symbol(symbol, info) ==
    IF info.ok
    THEN Run(<<Call("futures_exchange_info", <<>>)>>,
             Return(Upper(symbol) \in Elems(info.value)))
    ELSE Run(<<Call("futures_exchange_info", <<>>),
               LogError("Symbol validation failed", info.error)>>,
             Return(FALSE))

_log_request(order_type, params) ==
    LogInfo("_log_request", [order_type |-> order_type, params |-> params])

_log_response(response) == LogInfo("_log_response", response)

\* variant: a failed futures_create_order is tried once more
create_order_retrying(params, order, done) ==
    IF order.ok
    THEN Run(<<Call("futures_create_order", params),
               _log_response(order.value), LogInfo(done, params)>>,
             Return(order.value))
    ELSE Run(<<Call("futures_create_order", params),
               Call("futures_create_order", params),
               LogError("Order placement failed", order.error)>>,
             Raise(order.error))

\* the try block that ends place_market_order, place_limit_order and
\* place_stop_limit_order: one futures_create_order(**params)
create_order(params, order, done) ==
    IF order.ok
    THEN Run(<<Call("futures_create_order", params),
               _log_response(order.value), LogInfo(done, params)>>,
             Return(order.value))
    ELSE IF order.error.type = "BinanceAPIException"
    THEN Run(<<Call("futures_create_order", params),
               LogError("API Error", order.error)>>,
             Raise(order.error))
    ELSE Run(<<Call("futures_create_order", params),
               LogError("Order placement failed", order.error)>>,
             Raise(order.error))

\* variant: the order is sent before the quantity is checked
place_market_order_eager(symbol0, side0, quantity, info, order) ==
    LET symbol == Upper(symbol0)
        side   == Upper(side0)
        v      == _validate_symbol(symbol, info)
        params == [symbol |-> symbol, side |-> side, type |-> "MARKET",
                   quantity |-> quantity]
        sent   == create_order(params, order, "Market order executed")
    IN  IF v.outcome.kind = "raise" THEN v
        ELSE IF ~v.outcome.value
        THEN Run(v.events, Raise(ValueError(<<"Invalid symbol: ", symbol>>)))
        ELSE IF side \notin {BUY, SELL}
        THEN Run(v.events, Raise(ValueError(<<"Side must be 'BUY' or 'SELL'">>)))
        ELSE IF quantity <= 0
        THEN Run(v.events \o <<_log_request("MARKET", params)>> \o sent.events,
                 Raise(ValueError(<<"Quantity must be positive">>)))
        ELSE Run(v.events \o <<_log_request("MARKET", params)>> \o sent.events,
                 sent.outcome)

place_market_order(symbol0, side0, quantity, info, order) ==
    LET symbol == Upper(symbol0)
        side   == Upper(side0)
        v      == _validate_symbol(symbol, info)
        params == [symbol |-> symbol, side |-> side, type |-> "MARKET",
                   quantity |-> quantity]
        sent   == create_order(params, order, "Market order executed")
    IN  IF v.outcome.kind = "raise" THEN v
        ELSE IF ~v.outcome.value
        THEN Run(v.events, Raise(ValueError(<<"Invalid symbol: ", symbol>>)))
        ELSE IF side \notin {BUY, SELL}
        THEN Run(v.events, Raise(ValueError(<<"Side must be 'BUY' or 'SELL'">>)))
        ELSE IF quantity <= 0
        THEN Run(v.events, Raise(ValueError(<<"Quantity must be positive">>)))
        ELSE Run(v.events \o <<_log_request("MARKET", params)>> \o sent.events,
                 sent.outcome)

\* variant: the side is checked before the symbol
place_limit_order_sidefirst(symbol0, side0, quantity, price, tif, info, order) ==
    LET symbol == Upper(symbol0)
        side   == Upper(side0)
        time_in_force == Default(tif, GTC)
        v      == _validate_symbol(symbol, info)
        params == [symbol |-> symbol, side |-> side, type |-> "LIMIT",
                   quantity |-> quantity, price |-> price,
                   timeInForce |-> time_in_force]
        sent   == create_order(params, order, "Limit order placed")
    IN  IF side \notin {BUY, SELL}
        THEN Run(<<>>, Raise(ValueError(<<"Side must be 'BUY' or 'SELL'">>)))
        ELSE IF v.outcome.kind = "raise" THEN v
        ELSE IF ~v.outcome.value
        THEN Run(v.events, Raise(ValueError(<<"Invalid symbol: ", symbol>>)))
        ELSE IF quantity <= 0 \/ price <= 0
        THEN Run(v.events,
                 Raise(ValueError(<<"Quantity and price must be positive">>)))
        ELSE IF time_in_force \notin {GTC, IOC, FOK}
        THEN Run(v.events,
                 Raise(ValueError(<<"time_in_force must be 'GTC', 'IOC', or 'FOK'">>)))
        ELSE Run(v.events \o <<_log_request("LIMIT", params)>> \o sent.events,
                 sent.outcome)

\* variant: the request is logged after the order has been sent
place_limit_order_latelog(symbol0, side0, quantity, price, tif, info, order) ==
    LET symbol == Upper(symbol0)
        side   == Upper(side0)
        time_in_force == Default(tif, GTC)
        v      == _validate_symbol(symbol, info)
        params == [symbol |-> symbol, side |-> side, type |-> "LIMIT",
                   quantity |-> quantity, price |-> price,
                   timeInForce |-> time_in_force]
        sent   == create_order(params, order, "Limit order placed")
    IN  IF v.outcome.kind = "raise" THEN v
        ELSE IF ~v.outcome.value
        THEN Run(v.events, Raise(ValueError(<<"Invalid symbol: ", symbol>>)))
        ELSE IF side \notin {BUY, SELL}
        THEN Run(v.events, Raise(ValueError(<<"Side must be 'BUY' or 'SELL'">>)))
        ELSE IF quantity <= 0 \/ price <= 0
        THEN Run(v.events,
                 Raise(ValueError(<<"Quantity and price must be positive">>)))
        ELSE IF time_in_force \notin {GTC, IOC, FOK}
        THEN Run(v.events,
                 Raise(ValueError(<<"time_in_force must be 'GTC', 'IOC', or 'FOK'">>)))
        ELSE Run(v.events \o sent.events \o <<_log_request("LIMIT", params)>>,
                 sent.outcome)

place_limit_order(symbol0, side0, quantity, price, tif, info, order) ==
    LET symbol == Upper(symbol0)
        side   == Upper(side0)
        time_in_force == Default(tif, GTC)
        v      == _validate_symbol(symbol, info)
        params == [symbol |-> symbol, side |-> side, type |-> "LIMIT",
                   quantity |-> quantity, price |-> price,
                   timeInForce |-> time_in_force]
        sent   == create_order(params, order, "Limit order placed")
    IN  IF v.outcome.kind = "raise" THEN v
        ELSE IF ~v.outcome.value
        THEN Run(v.events, Raise(ValueError(<<"Invalid symbol: ", symbol>>)))
        ELSE IF side \notin {BUY, SELL}
        THEN Run(v.events, Raise(ValueError(<<"Side must be 'BUY' or 'SELL'">>)))
        ELSE IF quantity <= 0 \/ price <= 0
        THEN Run(v.events,
                 Raise(ValueError(<<"Quantity and price must be positive">>)))
        ELSE IF time_in_force \notin {GTC, IOC, FOK}
        THEN Run(v.events,
                 Raise(ValueError(<<"time_in_force must be 'GTC', 'IOC', or 'FOK'">>)))
        ELSE Run(v.events \o <<_log_request("LIMIT", params)>> \o sent.events,
                 sent.outcome)

\* variant: the stop price and the limit price change places
place_stop_limit_order_swapped(symbol0, side0, quantity, stop_price, limit_price, tif, info, order) ==
    LET symbol == Upper(symbol0)
        side   == Upper(side0)
        time_in_force == Default(tif, GTC)
        v      == _validate_symbol(symbol, info)
        params == [symbol |-> symbol, side |-> side, type |-> "STOP",
                   quantity |-> quantity, price |-> stop_price,
                   stopPrice |-> limit_price, timeInForce |-> time_in_force]
        sent   == create_order(params, order, "Stop-limit order placed")
    IN  IF v.outcome.kind = "raise" THEN v
        ELSE IF ~v.outcome.value
        THEN Run(v.events, Raise(ValueError(<<"Invalid symbol: ", symbol>>)))
        ELSE IF side \notin {BUY, SELL}
        THEN Run(v.events, Raise(ValueError(<<"Side must be 'BUY' or 'SELL'">>)))
        ELSE IF quantity <= 0 \/ stop_price <= 0 \/ limit_price <= 0
        THEN Run(v.events,
                 Raise(ValueError(
                     <<"Quantity, stop_price, and limit_price must be positive">>)))
        ELSE Run(v.events \o <<_log_request("STOP_LIMIT", params)>> \o sent.events,
                 sent.outcome)

place_stop_limit_order(symbol0, side0, quantity, stop_price, limit_price, tif, info, order) ==
    LET symbol == Upper(symbol0)
        side   == Upper(side0)
        time_in_force == Default(tif, GTC)
        v      == _validate_symbol(symbol, info)
        params == [symbol |-> symbol, side |-> side, type |-> "STOP",
                   quantity |-> quantity, price |-> limit_price,
                   stopPrice |-> stop_price, timeInForce |-> time_in_force]
        sent   == create_order(params, order, "Stop-limit order placed")
    IN  IF v.outcome.kind = "raise" THEN v
        ELSE IF ~v.outcome.value
        THEN Run(v.events, Raise(ValueError(<<"Invalid symbol: ", symbol>>)))
        ELSE IF side \notin {BUY, SELL}
        THEN Run(v.events, Raise(ValueError(<<"Side must be 'BUY' or 'SELL'">>)))
        ELSE IF quantity <= 0 \/ stop_price <= 0 \/ limit_price <= 0
        THEN Run(v.events,
                 Raise(ValueError(
                     <<"Quantity, stop_price, and limit_price must be positive">>)))
        ELSE Run(v.events \o <<_log_request("STOP_LIMIT", params)>> \o sent.events,
                 sent.outcome)

(***************************************************************************)
(* Account data of the exchange.                                           *)
(***************************************************************************)
WalletTexts ==
    { <<"0",".","0","0">>, <<"1",".","5","0">>, <<"0",".","0","1">>,
      <<"-","2",".","0","0">> }

AssetRecords ==
    [asset : {"USDT", "BNB"}, walletBalance : WalletTexts,
     availableBalance : { <<"0",".","0","0">> }, marginBalance : { <<"0">> }]

AssetLists == UNION { [1..n -> AssetRecords] : n \in 0..MaxAssets }

Accounts ==
    [totalWalletBalance : { <<"1",".","5","0">> },
     availableBalance : { <<"0",".","0","0">> }, assets : AssetLists]

AccountOutcomes == { Answer(a) : a \in Accounts } \cup Failures

BalanceEntry(asset) ==
    [asset |-> asset.asset, walletBalance |-> asset.walletBalance,
     availableBalance |-> asset.availableBalance]

\* variant: an asset with a zero wallet balance is kept
RECURSIVE nonnegative_assets(_)
nonnegative_assets(assets) ==
    IF assets = <<>> THEN <<>>
    ELSE (IF Float(Head(assets).walletBalance) >= 0
          THEN <<BalanceEntry(Head(assets))>> ELSE <<>>)
         \o nonnegative_assets(Tail(assets))

\* the loop of get_account_balance over account['assets']
RECURSIVE positive_assets(_)
positive_assets(assets) ==
    IF assets = <<>> THEN <<>>
    ELSE (IF Float(Head(assets).walletBalance) > 0
          THEN <<BalanceEntry(Head(assets))>> ELSE <<>>)
         \o positive_assets(Tail(assets))

get_account_balance(account) ==
    IF account.ok
    THEN LET balance ==
                 [totalWalletBalance |-> account.value.totalWalletBalance,
                  availableBalance |-> account.value.availableBalance,
                  assets |-> positive_assets(account.value.assets)]
         IN  Run(<<Call("futures_account", <<>>),
                   LogInfo("Account balance retrieved", balance.totalWalletBalance)>>,
                 Return(balance))
    ELSE Run(<<Call("futures_account", <<>>),
               LogError("Failed to get account balance", account.error)>>,
             Raise(account.error))

OrderListOutcomes ==
    { Answer(l) : l \in { <<>>, <<[orderId |-> 7, status |-> "NEW"]>> } }
        \cup Failures

get_open_orders(symbol, orders) ==
    LET call == IF Truthy(symbol)
                THEN Call("futures_get_open_orders", [symbol |-> Upper(symbol)])
                ELSE Call("futures_get_open_orders", <<>>)
    IN  IF orders.ok
        THEN Run(<<call, LogInfo("Retrieved open orders", Len(orders.value))>>,
                 Return(orders.value))
        ELSE Run(<<call, LogError("Failed to get open orders", orders.error)>>,
                 Raise(orders.error))

cancel_order(symbol, order_id, response) ==
    LET call == Call("futures_cancel_order",
                     [symbol |-> Upper(symbol), orderId |-> order_id])
    IN  IF response.ok
        THEN Run(<<call, LogInfo("Order cancelled", order_id)>>,
                 Return(response.value))
        ELSE Run(<<call, LogError("Failed to cancel order", response.error)>>,
                 Raise(response.error))

get_order_status(symbol, order_id, order) ==
    LET call == Call("futures_get_order",
                     [symbol |-> Upper(symbol), orderId |-> order_id])
    IN  IF order.ok
        THEN Run(<<call, LogInfo("Order status", order.value.status)>>,
                 Return(order.value))
        ELSE Run(<<call, LogError("Failed to get order status", order.error)>>,
                 Raise(order.error))

TickerOutcomes ==
    { Answer([price |-> t]) : t \in { <<"9","9",".","5">> } } \cup Failures

get_current_price(symbol, ticker) ==
    LET call == Call("futures_symbol_ticker", [symbol |-> Upper(symbol)])
    IN  IF ticker.ok
        THEN Run(<<call, LogInfo("current price", Float(ticker.value.price))>>,
                 Return(Float(ticker.value.price)))
        ELSE Run(<<call, LogError("Failed to get price", ticker.error)>>,
                 Raise(ticker.error))

(***************************************************************************)
(* Arguments the callers of BasicBot may pass.                             *)
(***************************************************************************)
SymbolArgs ==
    { BTCUSDT, <<"b","t","c","u">>, <<"E","t","h","U">>, <<"X","R","P","U">> }

SideArgs == { BUY, <<"b","u","y">>, <<"S","e","l","l">>, <<"H","O","L","D">> }

TifArgs == { GTC, IOC, FOK, <<"g","t","c">>, <<"D","A","Y">> }

Numbers == (0 - 1)..MaxQty

Idle == [op |-> "none"]

Done(op, args, env, run) == [op |-> op, args |-> args, env |-> env, run |-> run]

(***************************************************************************)
(* SpecApi: a constructed BasicBot whose methods are called directly, one  *)
(* call after the other, with any arguments.                               *)
(***************************************************************************)
InitApi == pc = "ready" /\ connected \in {"True", "False"} /\ last = Idle

ApiPlaceMarketOrder ==
    /\ pc = "ready"
    /\ \E symbol \in SymbolArgs, side \in SideArgs, quantity \in Numbers,
          info \in InfoOutcomes, order \in OrderOutcomes :
         last' = Done("place_market_order",
                      [symbol |-> symbol, side |-> side, quantity |-> quantity],
                      [info |-> info, order |-> order],
                      place_market_order(symbol, side, quantity, info, order))
    /\ pc' = "returned"
    /\ UNCHANGED connected

ApiPlaceLimitOrder ==
    /\ pc = "ready"
    /\ \E symbol \in SymbolArgs, side \in SideArgs, quantity \in Numbers,
          price \in Numbers, tif \in TifArgs \cup {Omitted},
          info \in InfoOutcomes, order \in OrderOutcomes :
         last' = Done("place_limit_order",
                      [symbol |-> symbol, side |-> side, quantity |-> quantity,
                       price |-> price, time_in_force |-> tif],
                      [info |-> info, order |-> order],
                      place_limit_order(symbol, side, quantity, price, tif,
                                        info, order))
    /\ pc' = "returned"
    /\ UNCHANGED connected

ApiPlaceStopLimitOrder ==
    /\ pc = "ready"
    /\ \E symbol \in SymbolArgs, side \in SideArgs, quantity \in Numbers,
          stop_price \in Numbers, limit_price \in Numbers,
          tif \in TifArgs \cup {Omitted},
          info \in InfoOutcomes, order \in OrderOutcomes :
         last' = Done("place_stop_limit_order",
                      [symbol |-> symbol, side |-> side, quantity |-> quantity,
                       stop_price |-> stop_price, limit_price |-> limit_price,
                       time_in_force |-> tif],
                      [info |-> info, order |-> order],
                      place_stop_limit_order(symbol, side, quantity, stop_price,
                                             limit_price, tif, info, order))
    /\ pc' = "returned"
    /\ UNCHANGED connected

ApiGetAccountBalance ==
    /\ pc = "ready"
    /\ \E account \in AccountOutcomes :
         last' = Done("get_account_balance", <<>>, [account |-> account],
                      get_account_balance(account))
    /\ pc' = "returned"
    /\ UNCHANGED connected

ApiGetOpenOrders ==
    /\ pc = "ready"
    /\ \E symbol \in SymbolArgs \cup {None, <<>>}, orders \in OrderListOutcomes :
         last' = Done("get_open_orders", [symbol |-> symbol], [orders |-> orders],
                      get_open_orders(symbol, orders))
    /\ pc' = "returned"
    /\ UNCHANGED connected

ApiCancelOrder ==
    /\ pc = "ready"
    /\ \E symbol \in SymbolArgs, order_id \in OrderIds, order \in OrderOutcomes :
         last' = Done("cancel_order", [symbol |-> symbol, order_id |-> order_id],
                      [order |-> order], cancel_order(symbol, order_id, order))
    /\ pc' = "returned"
    /\ UNCHANGED connected

ApiGetOrderStatus ==
    /\ pc = "ready"
    /\ \E symbol \in SymbolArgs, order_id \in OrderIds, order \in OrderOutcomes :
         last' = Done("get_order_status", [symbol |-> symbol, order_id |-> order_id],
                      [order |-> order], get_order_status(symbol, order_id, order))
    /\ pc' = "returned"
    /\ UNCHANGED connected

ApiGetCurrentPrice ==
    /\ pc = "ready"
    /\ \E symbol \in SymbolArgs, ticker \in TickerOutcomes :
         last' = Done("get_current_price", [symbol |-> symbol], [ticker |-> ticker],
                      get_current_price(symbol, ticker))
    /\ pc' = "returned"
    /\ UNCHANGED connected

\* the caller takes the result (or the exception); the bot is ready again
ApiReturn ==
    /\ pc = "returned"
    /\ pc' = "ready"
    /\ last' = Idle
    /\ UNCHANGED connected

NextApi ==
    \/ ApiPlaceMarketOrder
    \/ ApiPlaceLimitOrder
    \/ ApiPlaceStopLimitOrder
    \/ ApiGetAccountBalance
    \/ ApiGetOpenOrders
    \/ ApiCancelOrder
    \/ ApiGetOrderStatus
    \/ ApiGetCurrentPrice
    \/ ApiReturn

SpecApi == InitApi /\ [][NextApi]_vars

(***************************************************************************)
(* Construction of the bot.                                                *)
(***************************************************************************)
PingOutcomes == { Answer(<<>>) } \cup Failures

ClientOutcomes == { Answer("client") } \cup Failures

\* the account answers the connection test may get (it reads only the total)
TestAccountOutcomes ==
    { Answer(a) : a \in { b \in Accounts : b.assets = <<>> } } \cup Failures

_test_connection(ping, account) ==
    IF ~ping.ok
    THEN Run(<<Call("futures_ping", <<>>),
               LogError(IF ping.error.type = "BinanceAPIException"
                        THEN "API Error" ELSE "Connection test failed",
                        ping.error)>>,
             Return(FALSE))
    ELSE IF ~account.ok
    THEN Run(<<Call("futures_ping", <<>>), Call("futures_account", <<>>),
               LogError(IF account.error.type = "BinanceAPIException"
                        THEN "API Error" ELSE "Connection test failed",
                        account.error)>>,
             Return(FALSE))
    ELSE Run(<<Call("futures_ping", <<>>), Call("futures_account", <<>>),
               LogInfo("Connection successful", account.value.totalWalletBalance)>>,
             Return(TRUE))

\* BasicBot.__init__ with testnet = True
BasicBot(client, ping, account) ==
    IF ~client.ok
    THEN Run(<<LogError("Failed to initialize client", client.error)>>,
             Raise(client.error))
    ELSE Run(<<LogInfo("Connected to Binance Futures Testnet", <<>>)>>
                 \o _test_connection(ping, account).events,
             Return("bot"))

(***************************************************************************)
(* Input functions of the menu.                                            *)
(***************************************************************************)
\* what the user may type at the symbol prompts
SymbolTexts ==
    { <<"b","t","c","u">>, <<" ","E","T","H","U"," ">>, <<"x","r","p","u">>, <<>> }

ConfirmTexts ==
    { YES, <<"Y","E","S">>, <<"Y","e","s">>, <<"n","o">>, <<"y">>, <<>>,
      <<" ","y","e","s">> }

OrderIdTexts == { <<"7">>, <<"x">>, <<>> }

\* the values get_float_input can return: the loop ends on a positive number
get_float_input == { value \in Numbers : ~(value <= 0) }

\* the values get_choice_input can return: the loop ends on a text whose
\* upper() is one of valid_choices
get_choice_input(texts, valid_choices) ==
    { Upper(t) : t \in { u \in texts : Upper(u) \in Elems(valid_choices) } }

\* int(text): a run that returns the number or raises ValueError
int(text) ==
    IF text # <<>> /\ \A i \in DOMAIN text : IsDigit(text[i])
    THEN Run(<<>>, Return(DigitsVal(text)))
    ELSE Run(<<>>, Raise(ValueError(<<"invalid literal for int()">>)))

\* a branch of the menu that calls no method of the bot
NoRun == Run(<<>>, Return(None))

(***************************************************************************)
(* The branches of the menu, each the body of its `elif choice == ...`.    *)
(***************************************************************************)
menu_view_balance(account) == get_account_balance(account)

\* variant: the order is placed whatever the answer to the prompt is
menu_place_market_order_unconfirmed(symbol_text, side, quantity, confirm, info, order) ==
    place_market_order(Upper(Strip(symbol_text)), side, quantity, info, order)

menu_place_market_order(symbol_text, side, quantity, confirm, info, order) ==
    LET symbol == Upper(Strip(symbol_text))
    IN  IF Lower(confirm) = YES
        THEN place_market_order(symbol, side, quantity, info, order)
        ELSE NoRun

menu_place_limit_order(symbol_text, side, quantity, price, confirm, info, order) ==
    LET symbol == Upper(Strip(symbol_text))
    IN  IF Lower(confirm) = YES
        THEN place_limit_order(symbol, side, quantity, price, Omitted, info, order)
        ELSE NoRun

menu_place_stop_limit_order(symbol_text, side, quantity, stop_price, limit_price, confirm, info, order) ==
    LET symbol == Upper(Strip(symbol_text))
    IN  IF Lower(confirm) = YES
        THEN place_stop_limit_order(symbol, side, quantity, stop_price,
                                    limit_price, Omitted, info, order)
        ELSE NoRun

menu_view_open_orders(symbol_text, orders) ==
    LET symbol == Upper(Strip(symbol_text))
    IN  get_open_orders(IF symbol # <<>> THEN symbol ELSE None, orders)

menu_cancel_order(symbol_text, order_id_text, response) ==
    LET symbol   == Upper(Strip(symbol_text))
        order_id == int(order_id_text)
    IN  IF order_id.outcome.kind = "raise" THEN order_id
        ELSE cancel_order(symbol, order_id.outcome.value, response)

menu_order_status(symbol_text, order_id_text, order) ==
    LET symbol   == Upper(Strip(symbol_text))
        order_id == int(order_id_text)
    IN  IF order_id.outcome.kind = "raise" THEN order_id
        ELSE get_order_status(symbol, order_id.outcome.value, order)

menu_current_price(symbol_text, ticker) ==
    get_current_price(Upper(Strip(symbol_text)), ticker)

(***************************************************************************)
(* Spec: main().  pc is "start" before the bot is constructed, "menu" at   *)
(* the prompt of the menu, "pause" at `Press Enter to continue...`,        *)
(* "exited" after choice 9, "fatal" after the outer except clause and      *)
(* "killed" after an exception that main() does not catch.                 *)
(* connected is what _test_connection returned.                            *)
(***************************************************************************)
Init == pc = "start" /\ connected = "unset" /\ last = Idle

Construct ==
    /\ pc = "start"
    /\ \E client \in ClientOutcomes, ping \in PingOutcomes,
          account \in TestAccountOutcomes :
         LET run == BasicBot(client, ping, account)
         IN  /\ last' = Done("BasicBot", <<>>,
                             [client |-> client, ping |-> ping, account |-> account],
                             run)
             /\ IF run.outcome.kind = "raise"
                THEN pc' = "fatal" /\ UNCHANGED connected
                ELSE /\ pc' = "menu"
                     /\ connected' =
                          IF _test_connection(ping, account).outcome.value
                          THEN "True" ELSE "False"

Sides == get_choice_input(SideArgs, <<BUY, SELL>>)

\* variant: the inner try has no `except Exception` clause
except_clause_narrow(exc) ==
    IF exc.type = "ValueError" THEN "Validation Error"
    ELSE IF exc.type = "BinanceAPIException" THEN "Binance API Error"
    ELSE "uncaught"

\* the except clauses of the inner try: what the shell prints for an exception
\* the branch of the menu has raised
except_clause(exc) ==
    IF exc.type = "ValueError" THEN "Validation Error"
    ELSE IF exc.type = "BinanceAPIException" THEN "Binance API Error"
    ELSE "Error"

\* where main() is after a branch of the menu: an exception that no clause of
\* the inner try catches reaches the outer except clause, anything else
\* goes on to `Press Enter to continue...`
after_operation(run) ==
    IF run.outcome.kind = "raise" /\ except_clause(run.outcome.exc) = "uncaught"
    THEN "fatal"
    ELSE "pause"

Choice1 ==
    /\ pc = "menu"
    /\ \E account \in AccountOutcomes :
         last' = Done("1", <<>>, [account |-> account], menu_view_balance(account))
    /\ pc' = after_operation(last'.run)
    /\ UNCHANGED connected

Choice2 ==
    /\ pc = "menu"
    /\ \E text \in SymbolTexts, side \in Sides, quantity \in get_float_input,
          confirm \in ConfirmTexts, info \in InfoOutcomes, order \in OrderOutcomes :
         last' = Done("2",
                      [symbol |-> text, side |-> side, quantity |-> quantity,
                       confirm |-> confirm],
                      [info |-> info, order |-> order],
                      menu_place_market_order(text, side, quantity, confirm,
                                              info, order))
    /\ pc' = after_operation(last'.run)
    /\ UNCHANGED connected

Choice3 ==
    /\ pc = "menu"
    /\ \E text \in SymbolTexts, side \in Sides, quantity \in get_float_input,
          price \in get_float_input,
          confirm \in ConfirmTexts, info \in InfoOutcomes, order \in OrderOutcomes :
         last' = Done("3",
                      [symbol |-> text, side |-> side, quantity |-> quantity,
                       price |-> price, confirm |-> confirm],
                      [info |-> info, order |-> order],
                      menu_place_limit_order(text, side, quantity, price, confirm,
                                             info, order))
    /\ pc' = after_operation(last'.run)
    /\ UNCHANGED connected

Choice4 ==
    /\ pc = "menu"
    /\ \E text \in SymbolTexts, side \in Sides, quantity \in get_float_input,
          stop_price \in get_float_input, limit_price \in get_float_input,
          confirm \in ConfirmTexts, info \in InfoOutcomes, order \in OrderOutcomes :
         last' = Done("4",
                      [symbol |-> text, side |-> side, quantity |-> quantity,
                       stop_price |-> stop_price, limit_price |-> limit_price,
                       confirm |-> confirm],
                      [info |-> info, order |-> order],
                      menu_place_stop_limit_order(text, side, quantity, stop_price,
                                                  limit_price, confirm, info, order))
    /\ pc' = after_operation(last'.run)
    /\ UNCHANGED connected

Choice5 ==
    /\ pc = "menu"
    /\ \E text \in SymbolTexts, orders \in OrderListOutcomes :
         last' = Done("5", [symbol |-> text], [orders |-> orders],
                      menu_view_open_orders(text, orders))
    /\ pc' = after_operation(last'.run)
    /\ UNCHANGED connected

Choice6 ==
    /\ pc = "menu"
    /\ \E text \in SymbolTexts, id \in OrderIdTexts, order \in OrderOutcomes :
         last' = Done("6", [symbol |-> text, order_id |-> id, confirm |-> None],
                      [order |-> order], menu_cancel_order(text, id, order))
    /\ pc' = after_operation(last'.run)
    /\ UNCHANGED connected

Choice7 ==
    /\ pc = "menu"
    /\ \E text \in SymbolTexts, id \in OrderIdTexts, order \in OrderOutcomes :
         last' = Done("7", [symbol |-> text, order_id |-> id], [order |-> order],
                      menu_order_status(text, id, order))
    /\ pc' = after_operation(last'.run)
    /\ UNCHANGED connected

Choice8 ==
    /\ pc = "menu"
    /\ \E text \in SymbolTexts, ticker \in TickerOutcomes :
         last' = Done("8", [symbol |-> text], [ticker |-> ticker],
                      menu_current_price(text, ticker))
    /\ pc' = after_operation(last'.run)
    /\ UNCHANGED connected

Choice9 ==
    /\ pc = "menu"
    /\ last' = Done("9", <<>>, <<>>, NoRun)
    /\ pc' = "exited"
    /\ UNCHANGED connected

\* any other text at the menu prompt
ChoiceInvalid ==
    /\ pc = "menu"
    /\ last' = Done("invalid", <<>>, <<>>, NoRun)
    /\ pc' = "pause"
    /\ UNCHANGED connected

\* the user presses Enter: the loop displays the menu again
Continue ==
    /\ pc = "pause"
    /\ pc' = "menu"
    /\ last' = Idle
    /\ UNCHANGED connected

\* input() raises EOFError at the menu prompt or at `Press Enter`, both
\* outside the inner try: the outer except clause ends main()
StdinClosed ==
    /\ pc \in {"menu", "pause"}
    /\ pc' = "fatal"
    /\ UNCHANGED <<connected, last>>

\* Ctrl-C at the menu prompt or at `Press Enter`: KeyboardInterrupt is no
\* Exception, no except clause of main() catches it
Interrupted ==
    /\ pc \in {"menu", "pause"}
    /\ pc' = "killed"
    /\ UNCHANGED <<connected, last>>

Next ==
    \/ Construct
    \/ Choice1
    \/ Choice2
    \/ Choice3
    \/ Choice4
    \/ Choice5
    \/ Choice6
    \/ Choice7
    \/ Choice8
    \/ Choice9
    \/ ChoiceInvalid
    \/ Continue
    \/ StdinClosed
    \/ Interrupted

Spec == Init /\ [][Next]_vars

(***************************************************************************)
(* Observations on the call that has just been made.                       *)
(***************************************************************************)
Placements == {"place_market_order", "place_limit_order", "place_stop_limit_order"}

IsPlacement == last.op \in Placements

Events == last.run.events

Outcome == last.run.outcome

\* positions of the invocations of an endpoint in the events of the call
CallsOf(endpoint) ==
    { i \in DOMAIN Events : Events[i].ev = "call" /\ Events[i].endpoint = endpoint }

\* positions of the log records written by _log_request / _log_response
LogsOf(tag) ==
    { i \in DOMAIN Events : Events[i].ev = "log" /\ Events[i].tag = tag }

RaisesValueError == Outcome.kind = "raise" /\ Outcome.exc.type = "ValueError"

\* the uppercased symbol is in the symbol set the exchange reports
SymbolKnown ==
    /\ last.env.info.ok
    /\ Upper(last.args.symbol) \in Elems(last.env.info.value)

SideValid == Upper(last.args.side) \in {BUY, SELL}

NumericArgs ==
    IF last.op = "place_market_order" THEN {last.args.quantity}
    ELSE IF last.op = "place_limit_order"
    THEN {last.args.quantity, last.args.price}
    ELSE {last.args.quantity, last.args.stop_price, last.args.limit_price}

NumericValid == \A n \in NumericArgs : n > 0

TifGiven == IF last.args.time_in_force = Omitted THEN GTC ELSE last.args.time_in_force

QuantityMessages ==
    { <<"Quantity must be positive">>,
      <<"Quantity and price must be positive">>,
      <<"Quantity, stop_price, and limit_price must be positive">> }

\* C1: in the three placement methods the first failing check, in the order
\* symbol, side, numeric positivity, decides the error: an unknown symbol gives
\* the invalid-symbol error whatever the other arguments are, an invalid side
\* with a known symbol gives the invalid-side error whatever the numbers are,
\* and a non-positive number with known symbol and valid side gives the
\* quantity/price error whatever the time-in-force is.
C1_FirstFailingCheckDecides ==
    IsPlacement =>
      /\ ~SymbolKnown =>
           Outcome = Raise(ValueError(<<"Invalid symbol: ", Upper(last.args.symbol)>>))
      /\ SymbolKnown /\ ~SideValid =>
           Outcome = Raise(ValueError(<<"Side must be 'BUY' or 'SELL'">>))
      /\ SymbolKnown /\ SideValid /\ ~NumericValid =>
           /\ RaisesValueError
           /\ Outcome.exc.message \in QuantityMessages

\* a limit order with an unknown symbol, an invalid side, a non-positive
\* quantity and an invalid time-in-force is rejected for its symbol
C1_Witness ==
    /\ last.op = "place_limit_order"
    /\ last.env.info.ok
    /\ ~SymbolKnown /\ ~SideValid /\ ~NumericValid
    /\ TifGiven \notin {GTC, IOC, FOK}
    /\ RaisesValueError
    /\ Outcome.exc.message[1] = "Invalid symbol: "

\* C2: every order request that carries a timeInForce reaches
\* futures_create_order with timeInForce in {GTC, IOC, FOK}.
C2_TimeInForceChecked ==
    IsPlacement =>
      \A i \in CallsOf("futures_create_order") :
         "timeInForce" \in DOMAIN Events[i].params =>
             Events[i].params.timeInForce \in {GTC, IOC, FOK}

\* C3: a failed connection-and-credential verification is fatal: once
\* _test_connection has failed, the menu loop is never entered.
C3_FailedVerificationIsFatal ==
    connected = "False" => pc \notin {"menu", "pause", "exited"}

MenuPlacements == {"2", "3", "4"}

OrderSent ==
    CallsOf("futures_create_order") \cup CallsOf("futures_cancel_order") # {}

\* C4 as stated: every mutating branch of the menu (market, limit, stop-limit,
\* cancel) sends its request only after the confirmation prompt was answered yes.
C4_MutationsConfirmed ==
    last.op \in MenuPlacements \cup {"6"} =>
      (OrderSent => last.args.confirm # None /\ Lower(last.args.confirm) = YES)

\* C4 amended: the three placement branches send futures_create_order only
\* when lower() of the answer to the confirmation prompt is `yes`, and call
\* nothing of the exchange otherwise; the cancel branch has no confirmation
\* prompt and sends futures_cancel_order as soon as the order id is a number.
C4_PlacementsConfirmed ==
    /\ last.op \in MenuPlacements =>
         /\ OrderSent => Lower(last.args.confirm) = YES
         /\ Lower(last.args.confirm) # YES => Events = <<>>
    /\ last.op = "6" =>
         /\ last.args.confirm = None
         /\ int(last.args.order_id).outcome.kind = "return" =>
              Cardinality(CallsOf("futures_cancel_order")) = 1

\* the stop-limit prompt answered ` yes` (not yes): nothing is sent
C4_Witness ==
    /\ pc = "pause"
    /\ last.op = "4"
    /\ last.args.confirm = <<" ", "y", "e", "s">>
    /\ last.env.info.ok /\ last.env.order.ok
    /\ Events = <<>>

EndpointOf ==
    [op \in Placements |-> "futures_create_order"] @@
    ("cancel_order" :> "futures_cancel_order") @@
    ("get_order_status" :> "futures_get_order") @@
    ("get_open_orders" :> "futures_get_open_orders") @@
    ("get_current_price" :> "futures_symbol_ticker")

\* what the exchange did with the invocation of the endpoint of the call
EndpointOutcome ==
    IF last.op = "get_open_orders" THEN last.env.orders
    ELSE IF last.op = "get_current_price" THEN last.env.ticker
    ELSE last.env.order

\* C5: in one call of a placement method, cancel_order, get_order_status,
\* get_open_orders or get_current_price the endpoint of the method is invoked
\* at most once, and when the invocation fails its error is the exception
\* the caller gets.
C5_NoRetry ==
    last.op \in DOMAIN EndpointOf =>
      /\ Cardinality(CallsOf(EndpointOf[last.op])) <= 1
      /\ CallsOf(EndpointOf[last.op]) # {} /\ ~EndpointOutcome.ok =>
           Outcome = Raise(EndpointOutcome.error)

\* a stop-limit order that the exchange rejects
C5_Witness ==
    /\ last.op = "place_stop_limit_order"
    /\ Cardinality(CallsOf("futures_create_order")) = 1
    /\ ~last.env.order.ok
    /\ last.env.order.error.type = "BinanceAPIException"
    /\ Outcome = Raise(last.env.order.error)

\* C6 as stated: a placement call that ends in a ValidationError has issued
\* no request to the exchange, neither the exchange-info lookup nor createOrder.
C6_NoRequestBeforeValidationError ==
    IsPlacement /\ RaisesValueError =>
      CallsOf("futures_exchange_info") \cup CallsOf("futures_create_order") = {}

\* C6 amended: a placement call that ends in a ValidationError has issued no
\* createOrder; the one request it has issued is the exchange-info lookup of
\* the symbol check, which comes first.
C6_NoOrderBeforeValidationError ==
    IsPlacement /\ RaisesValueError =>
      /\ CallsOf("futures_create_order") = {}
      /\ { i \in DOMAIN Events : Events[i].ev = "call" } = {1}
      /\ CallsOf("futures_exchange_info") = {1}

\* a market order of a listed symbol with a non-positive quantity
C6_Witness ==
    /\ last.op = "place_market_order"
    /\ SymbolKnown /\ SideValid /\ ~NumericValid
    /\ last.env.order.ok
    /\ Outcome = Raise(ValueError(<<"Quantity must be positive">>))

\* the checks the method of the call makes
PassesValidation ==
    /\ SymbolKnown /\ SideValid /\ NumericValid
    /\ last.op = "place_limit_order" => TifGiven \in {GTC, IOC, FOK}

ExpectedParams ==
    IF last.op = "place_market_order"
    THEN [symbol |-> Upper(last.args.symbol), side |-> Upper(last.args.side),
          type |-> "MARKET", quantity |-> last.args.quantity]
    ELSE IF last.op = "place_limit_order"
    THEN [symbol |-> Upper(last.args.symbol), side |-> Upper(last.args.side),
          type |-> "LIMIT", quantity |-> last.args.quantity,
          price |-> last.args.price, timeInForce |-> TifGiven]
    ELSE [symbol |-> Upper(last.args.symbol), side |-> Upper(last.args.side),
          type |-> "STOP", quantity |-> last.args.quantity,
          price |-> last.args.limit_price, stopPrice |-> last.args.stop_price,
          timeInForce |-> TifGiven]

\* C7: for every input that passes validation, futures_create_order gets
\* exactly the keys of the order type, with symbol and side uppercased:
\* MARKET has symbol, side, type, quantity and no price, stopPrice or
\* timeInForce; LIMIT adds price and timeInForce; STOP_LIMIT has type STOP,
\* price = limit_price, stopPrice = stop_price; timeInForce is GTC when the
\* caller gives none.
C7_ParameterSets ==
    IsPlacement /\ PassesValidation =>
      /\ Cardinality(CallsOf("futures_create_order")) = 1
      /\ \A i \in CallsOf("futures_create_order") :
           /\ Events[i].params = ExpectedParams
           /\ last.op = "place_market_order" =>
                DOMAIN Events[i].params \cap {"price", "stopPrice", "timeInForce"} = {}

\* a stop-limit order given in lower case, with different stop and limit
\* prices and no time-in-force
C7_Witness ==
    /\ last.op = "place_stop_limit_order"
    /\ PassesValidation
    /\ last.args.side = <<"b", "u", "y">>
    /\ last.args.symbol = <<"b", "t", "c", "u">>
    /\ last.args.stop_price # last.args.limit_price
    /\ last.args.time_in_force = Omitted
    /\ \E i \in CallsOf("futures_create_order") :
         Events[i].params.timeInForce = GTC /\ Events[i].params.side = BUY

\* the i-th asset of the exchange is kept
KeptPositive(assets, i) == Float(assets[i].walletBalance) > 0

KeptNonzero(assets, i) == Float(assets[i].walletBalance) # 0

\* out is the subsequence of assets at the positions kept, in their order
IsSubsequenceAt(out, assets, kept) ==
    /\ Len(out) = Cardinality(kept)
    /\ \A k \in DOMAIN out :
         LET i == CHOOSE j \in kept : Cardinality({ m \in kept : m <= j }) = k
         IN  out[k] = BalanceEntry(assets[i])

BalanceReturned ==
    /\ last.op = "get_account_balance"
    /\ last.env.account.ok
    /\ Outcome.kind = "return"

\* C8 as stated: get_account_balance returns the assets whose wallet balance
\* is not zero (a negative balance is kept), in the order of the exchange.
C8_NonzeroAssetsKept ==
    last.op = "get_account_balance" /\ last.env.account.ok =>
      /\ Outcome.kind = "return"
      /\ LET assets == last.env.account.value.assets
         IN  IsSubsequenceAt(Outcome.value.assets, assets,
                 { i \in DOMAIN assets : KeptNonzero(assets, i) })

\* C8 amended: get_account_balance returns the assets whose wallet balance is
\* greater than zero, in the order of the exchange: an asset is dropped if
\* and only if its wallet balance is zero or negative.
C8_PositiveAssetsKept ==
    last.op = "get_account_balance" /\ last.env.account.ok =>
      /\ Outcome.kind = "return"
      /\ LET assets == last.env.account.value.assets
         IN  IsSubsequenceAt(Outcome.value.assets, assets,
                 { i \in DOMAIN assets : KeptPositive(assets, i) })

\* an account with a negative and a positive wallet balance: one asset returned
C8_Witness ==
    /\ BalanceReturned
    /\ LET assets == last.env.account.value.assets
       IN  /\ Len(assets) = 2
           /\ Float(assets[1].walletBalance) < 0
           /\ Float(assets[2].walletBalance) > 0
           /\ Outcome.value.assets = <<BalanceEntry(assets[2])>>

\* C9: when the exchange-info lookup fails, the placement call rejects with
\* the invalid-symbol error and futures_create_order is not invoked; every
\* placement call makes the lookup exactly once.
C9_LookupErrorIsInvalidSymbol ==
    IsPlacement =>
      /\ Cardinality(CallsOf("futures_exchange_info")) = 1
      /\ ~last.env.info.ok =>
           /\ Outcome =
                Raise(ValueError(<<"Invalid symbol: ", Upper(last.args.symbol)>>))
           /\ CallsOf("futures_create_order") = {}

\* an otherwise valid stop-limit order while the exchange is unreachable
C9_Witness ==
    /\ last.op = "place_stop_limit_order"
    /\ ~last.env.info.ok
    /\ last.env.info.error.type = "BinanceRequestException"
    /\ Upper(last.args.symbol) = BTCUSDT
    /\ SideValid /\ NumericValid
    /\ RaisesValueError

\* C10: a placement call that passes validation logs the parameter set
\* before it invokes futures_create_order with it, and logs the response only
\* after futures_create_order has answered; a call that fails validation logs
\* no request and a call whose futures_create_order fails logs no response.
C10_LogCallLog ==
    IsPlacement =>
      LET req  == LogsOf("_log_request")
          resp == LogsOf("_log_response")
          sent == CallsOf("futures_create_order")
      IN  /\ PassesValidation =>
                /\ req # {} /\ sent # {}
                /\ \A i \in req, j \in sent :
                      i < j /\ Events[i].data.params = Events[j].params
          /\ \A k \in resp :
                /\ last.env.order.ok
                /\ Events[k].data = last.env.order.value
                /\ \E j \in sent : j < k
          /\ PassesValidation /\ last.env.order.ok => resp # {}
          /\ RaisesValueError => req = {}
          /\ sent # {} /\ ~last.env.order.ok => resp = {}

\* a limit order that is placed: request logged, order sent, response logged
C10_Witness ==
    /\ last.op = "place_limit_order"
    /\ PassesValidation
    /\ last.env.order.ok
    /\ \E i \in LogsOf("_log_request"), j \in CallsOf("futures_create_order"),
          k \in LogsOf("_log_response") : i < j /\ j < k

MenuOperations == {"1", "2", "3", "4", "5", "6", "7", "8"}

InMenuLoop(p) == p \in {"menu", "pause"}

\* C11 as stated: once the bot is initialized, a failed menu operation is
\* caught, printed and followed by the menu again, and the menu loop is left
\* only through the exit choice 9.
C11_LoopLeftOnlyByExit ==
    [][ /\ (pc = "menu" /\ last'.op \in MenuOperations) =>
             /\ pc' = "pause"
             /\ last'.run.outcome.kind = "raise" =>
                  except_clause(last'.run.outcome.exc)
                      \in {"Validation Error", "Binance API Error", "Error"}
        /\ (InMenuLoop(pc) /\ ~InMenuLoop(pc')) =>
             (pc = "menu" /\ last'.op = "9" /\ pc' = "exited") ]_vars

\* C11 amended: once the bot is initialized, a validation error, exchange
\* API error or transport error raised by a menu operation (choices 1-8) is
\* caught and printed by the shell, which goes on to `Press Enter` and the
\* menu; the menu loop is never left by the step of an operation.  It is left
\* through the exit choice 9, or when reading the user's input fails at the
\* menu prompt or at `Press Enter` (end of input reaches the fatal handler,
\* an interrupt ends the program), which runs no operation.
C11_OperationFailureNotFatal ==
    [][ /\ (pc = "menu" /\ last'.op \in MenuOperations) =>
             /\ pc' = "pause"
             /\ last'.run.outcome.kind = "raise" =>
                  except_clause(last'.run.outcome.exc)
                      \in {"Validation Error", "Binance API Error", "Error"}
        /\ (InMenuLoop(pc) /\ ~InMenuLoop(pc')) =>
             \/ pc = "menu" /\ last'.op = "9" /\ pc' = "exited"
             \/ pc' \in {"fatal", "killed"} /\ last' = last ]_vars

\* a confirmed market order failed with a transport error and the shell is at
\* `Press Enter`
C11_Witness ==
    /\ pc = "pause"
    /\ last.op = "2"
    /\ Lower(last.args.confirm) = YES
    /\ Outcome.kind = "raise"
    /\ Outcome.exc.type = "BinanceRequestException"
    /\ except_clause(Outcome.exc) = "Error"

====
